---- MODULE Spec2Model ----
(***************************************************************************)
(* A model of the llmrankers judgment orchestration layer:                 *)
(*   - listwise.py: permutation repair (clean_response, remove_duplicate,  *)
(*     receive_permutation), the prompt budget fitter                      *)
(*     (create_permutation_instruction_chat), the retrying oracle call     *)
(*     (OpenAiListwiseLlmRanker.compare) and the sliding-window rerank;    *)
(*   - pairwise.py: PairwiseLlmRanker.rerank with its three strategies     *)
(*     (allpair, heapsort, bubblesort) and the result merge.               *)
(*                                                                         *)
(* Texts are sequences of one-character strings.  Documents are docids     *)
(* (naturals); a document's text is represented by its number of words.    *)
(* Python's float scores of the all-pairs tournament are multiples of 0.5  *)
(* and are kept doubled, as integers.                                      *)
(***************************************************************************)
EXTENDS Integers, Sequences, FiniteSets, TLC

\* ------------------------------------------------------------------ bounds
MaxDocs == 3        \* longest candidate list
MaxTextLen == 3     \* longest raw response text of the repair harness

\* ------------------------------------------------------------- characters
\* Characters for which str.isdigit() is true and int() succeeds (decimal
\* digits), with their values.
DecimalDigits == {"0", "1", "2", "3", "4"}

DigitValue(c) ==
    CASE c = "0" -> 0 [] c = "1" -> 1 [] c = "2" -> 2 [] c = "3" -> 3
      [] c = "4" -> 4 [] OTHER -> 0

\* "SUP2" stands for the one character U+00B2 (superscript two): str.isdigit()
\* is true for it, and int() rejects it with ValueError.
NonDecimalDigits == {"SUP2"}

\* str.isdigit
IsDigit(c) == c \in DecimalDigits \cup NonDecimalDigits

\* The characters raw response texts of the repair harness are drawn from.
Chars == {"0", "1", "2", "3", ">", " ", "SUP2"}

Min(a, b) == IF a < b THEN a ELSE b
Max(a, b) == IF a > b THEN a ELSE b

\* ------------------------------------------------------ permutation repair
\* str.strip() of a text whose only whitespace is " ".
RECURSIVE LStrip(_)
LStrip(s) ==
    IF s # <<>> /\ Head(s) = " " THEN LStrip(Tail(s)) ELSE s

RECURSIVE RStrip(_)
RStrip(s) ==
    IF s # <<>> /\ s[Len(s)] = " " THEN RStrip(SubSeq(s, 1, Len(s) - 1)) ELSE s

Strip(s) == RStrip(LStrip(s))

\* clean_response: every non-digit character becomes a space, then strip.
CleanResponse(response) ==
    Strip([i \in 1..Len(response) |->
              IF IsDigit(response[i]) THEN response[i] ELSE " "])

\* str.split(): the maximal runs of non-space characters, in order.
RECURSIVE SplitFrom(_, _, _)
SplitFrom(s, cur, acc) ==
    IF s = <<>>
    THEN IF cur = <<>> THEN acc ELSE Append(acc, cur)
    ELSE IF Head(s) = " "
         THEN SplitFrom(Tail(s), <<>>, IF cur = <<>> THEN acc ELSE Append(acc, cur))
         ELSE SplitFrom(Tail(s), Append(cur, Head(s)), acc)

Split(s) == SplitFrom(s, <<>>, <<>>)

\* int(x) raises ValueError unless every character is a decimal digit.
IntRaises(tok) == \E i \in 1..Len(tok) : tok[i] \notin DecimalDigits

RECURSIVE IntOf(_)
IntOf(tok) ==
    IF tok = <<>> THEN 0
    ELSE 10 * IntOf(SubSeq(tok, 1, Len(tok) - 1)) + DigitValue(tok[Len(tok)])

\* remove_duplicate: keep the first occurrence of every element.
RECURSIVE RemoveDuplicateFrom(_, _)
RemoveDuplicateFrom(response, new_response) ==
    IF response = <<>> THEN new_response
    ELSE RemoveDuplicateFrom(Tail(response),
            IF \E i \in 1..Len(new_response) : new_response[i] = Head(response)
            THEN new_response
            ELSE Append(new_response, Head(response)))

\* Mutant of RemoveDuplicate: the last occurrence of every element is kept.
RECURSIVE RemoveDuplicateKeepLast(_)
RemoveDuplicateKeepLast(response) ==
    IF response = <<>> THEN <<>>
    ELSE IF \E i \in 2..Len(response) : response[i] = Head(response)
         THEN RemoveDuplicateKeepLast(Tail(response))
         ELSE <<Head(response)>> \o RemoveDuplicateKeepLast(Tail(response))

RemoveDuplicate(response) == RemoveDuplicateFrom(response, <<>>)

InSeq(x, s) == \E i \in 1..Len(s) : s[i] = x

\* receive_permutation, lines 154-157: the tokens of the cleaned response.
ResponseTokens(permutation) == Split(CleanResponse(permutation))

\* receive_permutation, line 156: int(x) raises on some token.
ParseRaises(permutation) ==
    \E i \in 1..Len(ResponseTokens(permutation)) :
        IntRaises(ResponseTokens(permutation)[i])

\* receive_permutation, lines 154-162: the local `response` that is applied to
\* a cut of cut_len documents (0-based indices).
ResolvedResponse(permutation, cut_len) ==
    LET toks == ResponseTokens(permutation)
        ids == [i \in 1..Len(toks) |-> IntOf(toks[i]) - 1]
        dedup == RemoveDuplicate(ids)
        original_rank == [t \in 1..cut_len |-> t - 1]
        kept == SelectSeq(dedup, LAMBDA ss : InSeq(ss, original_rank))
    IN  kept \o SelectSeq(original_rank, LAMBDA tt : ~InSeq(tt, kept))

\* ranking[rank_start: rank_end] for 0 <= rank_start, rank_end.
Slice(list, from, to) ==
    IF Min(to, Len(list)) <= from THEN <<>>
    ELSE SubSeq(list, from + 1, Min(to, Len(list)))

\* Mutant of ReceivePermutation: the snapshot is cut from the head of the list
\* (ranking[0: rank_end - rank_start]) instead of from rank_start.
ReceivePermutationFromHead(list, permutation, rank_start, rank_end) ==
    IF ParseRaises(permutation)
    THEN [raised |-> TRUE, ranking |-> list, response |-> <<>>]
    ELSE LET cut_range == Slice(list, 0, rank_end - rank_start)
             resp == ResolvedResponse(permutation, Len(cut_range))
         IN  [raised |-> FALSE,
              ranking |-> [p \in 1..Len(list) |->
                  IF p - 1 >= rank_start /\ p - 1 < rank_start + Len(resp)
                  THEN cut_range[resp[p - rank_start] + 1]
                  ELSE list[p]],
              response |-> resp]

\* receive_permutation: the outcome of the call.  A ValueError of line 156 is
\* raised before the ranking is touched.
ReceivePermutation(list, permutation, rank_start, rank_end) ==
    IF ParseRaises(permutation)
    THEN [raised |-> TRUE, ranking |-> list, response |-> <<>>]
    ELSE LET cut_range == Slice(list, rank_start, rank_end)
             resp == ResolvedResponse(permutation, Len(cut_range))
         IN  [raised |-> FALSE,
              ranking |-> [p \in 1..Len(list) |->
                  IF p - 1 >= rank_start /\ p - 1 < rank_start + Len(resp)
                  THEN cut_range[resp[p - rank_start] + 1]
                  ELSE list[p]],
              response |-> resp]

\* ------------------------------------------------------------------- state
VARIABLES
    pc,                 \* position of the running call
    reused,             \* an earlier call on this instance did oracle work
    llm,                \* self.llm: the oracle's model name (listwise)
    window_size,        \* self.window_size
    step_size,          \* self.step_size
    num_repeat,         \* self.num_repeat
    method,             \* self.method (pairwise)
    k,                  \* self.k (pairwise)
    query,              \* number of words of the query of the running call
    caller,             \* the caller's list object: docids in order
    callerScore,        \* score field of the caller's documents, by position
    ranking,            \* the local `ranking` of rerank: docids in order
    retScore,           \* score field of the returned documents, by position
    rep,                \* passes started by the loop of line 209
    start_pos,          \* start_pos of the listwise window loop (rank_start)
    max_length,         \* max_length of the budget fitter
    permutation,        \* text returned by compare
    err,                \* the exception last caught in compare
    response,           \* the order receive_permutation applied last
    visited,            \* window starts visited in the running pass
    total_compare,      \* self.total_compare
    total_prompt_tokens,        \* self.total_prompt_tokens
    total_completion_tokens,    \* self.total_completion_tokens
    work,               \* oracle work done since the running call was entered
    raised,             \* the exception that ended the last call, or "none"
    ranker,             \* which component this instance is
    original_ranking,   \* pairwise rerank: the deep copy of line 186
    arr,                \* working list of heapSort / bubblesort
    loop_i,             \* bubblesort's i
    loop_j,             \* bubblesort's j
    outputs,            \* all-pairs: the decoded outputs, two per pair
    scoreKeys,          \* all-pairs: the keys of `scores`, in insertion order
    scoreVal,           \* all-pairs: 2 * scores[docid]
    results,            \* pairwise rerank: the returned list
    hidden,             \* the oracle's hidden preference: docids, best first
    transitive          \* the oracle always judges by `hidden`

instVars == <<llm, window_size, step_size, num_repeat, method, k>>
ctrVars == <<total_compare, total_prompt_tokens, total_completion_tokens, work>>
listVars == <<caller, callerScore, ranking, retScore>>
lwVars == <<rep, start_pos, max_length, permutation, err, response, visited>>
pwVars == <<original_ranking, arr, loop_i, loop_j, outputs, scoreKeys, scoreVal,
            results, hidden, transitive>>
vars == <<pc, reused, ranker, query, raised, instVars, ctrVars, listVars, lwVars,
          pwVars>>

Range(s) == {s[i] : i \in 1..Len(s)}

\* [1, ..., n]
Iota(n) == [p \in 1..n |-> p]

\* The orders of the docids 1..n.
Orders(n) ==
    {s \in [1..n -> 1..n] : \A p, q \in 1..n : p # q => s[p] # s[q]}

\* ------------------------------------------------------ prompt budget fitter
\* max_tokens(model)
MaxTokens(model) == IF model = "gpt-4" THEN 8192 ELSE 4096

\* num_tokens_from_messages, lines 35-47: tokens_per_message of the model.
TokensPerMessage(model) ==
    IF model = "gpt-3.5-turbo" THEN 4
    ELSE IF model = "gpt-4" THEN 3
    ELSE 0

\* Number of words of a document's text.  Odd docids are long passages (more
\* than the 300 words the fitter starts from), even docids short ones.
WordsOf(docid) == IF docid % 2 = 1 THEN 305 ELSE 4

\* len(content.split()[:max_length]): Python's slice keeps the first
\* max_length words, and for a negative max_length drops the last -max_length.
KeptWords(words, length) ==
    IF length >= 0 THEN Min(words, length) ELSE Max(words + length, 0)

RECURSIVE SumKept(_, _)
SumKept(docs, length) ==
    IF docs = <<>> THEN 0
    ELSE KeptWords(WordsOf(Head(docs)), length) + SumKept(Tail(docs), length)

\* Words of the fixed texts of the request (the token encoder is external; a
\* text is counted as one token per word, a role as one token).
SystemWords == 17
PrefixWords == 22
OkayWords == 5
ReceivedWords == 3
PostWords == 57
ReplyPriming == 3
InitMaxLength == 300
SafetyMargin == 200

\* num_tokens_from_messages of the messages built by one iteration of
\* create_permutation_instruction_chat at truncation length `length`.
NumTokens(q, docs, length, model) ==
    LET num == Len(docs)
        nmsg == 3 + 2 * num + 1
    IN  nmsg * TokensPerMessage(model) + nmsg
        + SystemWords + (PrefixWords + q) + OkayWords
        + num * (1 + ReceivedWords) + SumKept(docs, length)
        + (PostWords + q)
        + ReplyPriming

\* line 96: the request fits the context budget.
Fits(q, docs, length, model) ==
    NumTokens(q, docs, length, model) <= MaxTokens(model) - SafetyMargin

\* ---------------------------------------------------------- shared pieces
\* Mutant of ResetCounters: rerank leaves the counters as they are.
KeepCounters ==
    UNCHANGED <<total_compare, total_prompt_tokens, total_completion_tokens>>

\* The three assignments at the entry of rerank (listwise.py 205-207,
\* pairwise.py 187-189).
ResetCounters ==
    /\ total_compare' = 0
    /\ total_prompt_tokens' = 0
    /\ total_completion_tokens' = 0

MaxWindow == 3      \* largest window_size
MaxStep == 2        \* largest step_size
MaxRepeat == 1      \* largest num_repeat
MaxShrink == 610    \* decrements of max_length that are followed

\* Model names and query lengths (in words) the instances and calls draw from.
Models == {"gpt-3.5-turbo", "gpt-4"}
QueryWords == {3, 1722, 2000}

\* Score the upstream retriever gave the document at position p.
RetrievalScore(p) == 100 - p

NoWork == [compare |-> 0, prompt |-> 0, completion |-> 0]

CallEnded == {"idle", "returned", "raised"}

\* Mutant of Sentinel: a sentinel text that carries a number.
SentinelNumbered ==
    <<"E", "R", "R", "O", "R", ":", ":", "r", "e", "d", "u", "c", "e", "_",
      "l", "e", "n", "g", "t", "h", "_", "2">>

\* The sentinel compare returns on a context-too-long failure (line 202).
Sentinel ==
    <<"E", "R", "R", "O", "R", ":", ":", "r", "e", "d", "u", "c", "e", "_",
      "l", "e", "n", "g", "t", "h">>

IdChar(id) ==
    CASE id = 0 -> "0" [] id = 1 -> "1" [] id = 2 -> "2" [] id = 3 -> "3"
      [] OTHER -> "4"

\* The text "[a] > [b] > ..." naming the 1-based identifiers ids.
RECURSIVE FormatIds(_)
FormatIds(ids) ==
    IF ids = <<>> THEN <<>>
    ELSE <<"[", IdChar(Head(ids)), "]">>
         \o (IF Tail(ids) = <<>> THEN <<>> ELSE <<" ", ">", " ">>)
         \o FormatIds(Tail(ids))

Reverse(s) == [p \in 1..Len(s) |-> s[Len(s) + 1 - p]]

\* Texts the listwise oracle may answer for a window of w documents: up to two
\* identifiers from 1..w+1 (in range or one past it, possibly repeated), the
\* full reversed order, the empty text, and a text holding U+00B2.
OracleTexts(w) ==
    {FormatIds(ids) : ids \in UNION {[1..m -> 1..(w + 1)] : m \in 0..2}}
    \cup {FormatIds(Reverse(Iota(w)))}
    \cup {<<"[", "1", "]", "SUP2">>}

\* completion['usage'] of an answered request over docs: the oracle bills one
\* prompt token per message and one completion token per passage.
Usage(docs) == [prompt |-> 3 + 2 * Len(docs) + 1, completion |-> Len(docs)]

\* ------------------------------------------------- listwise rerank (OpenAI)
\* Mutant of FirstStart: the first window ends one document before the tail.
FirstStartShort(n, w) == n - w - 1

\* lines 211-212: the first window start of a pass over n documents.
FirstStart(n, w) == n - w

\* Mutant of InWindowLoop: the loop stops one window early (start_pos > 0).
InWindowLoopStrict(pos) == pos > 0

\* line 217: the window loop's condition.
InWindowLoop(pos) == pos >= 0

\* line 229: the next window start.
NextStart(pos, step) == pos - step

\* The window starts one pass visits from pos on, in order (lines 217-229).
RECURSIVE StartsFrom(_, _)
StartsFrom(pos, step) ==
    IF InWindowLoop(pos) THEN <<pos>> \o StartsFrom(NextStart(pos, step), step)
    ELSE <<>>

WindowDocs == Slice(ranking, start_pos, start_pos + window_size)

\* Mutant of Aliased: the deep copy of line 210 is missing, the local
\* `ranking` stays the caller's list.
AliasedAlways == TRUE

\* The local `ranking` is still the caller's list object: no pass has yet
\* rebound it to a deep copy (line 210).
Aliased == rep = 0

\* rerank, lines 204-207: entry of a call with a list of n documents.
LwRerank ==
    /\ ranker = "listwise"
    /\ pc \in CallEnded
    /\ reused' = (reused \/ total_compare > 0)
    /\ \E n \in 0..MaxDocs :
          /\ caller' = Iota(n)
          /\ callerScore' = [p \in 1..n |-> RetrievalScore(p)]
          /\ ranking' = Iota(n)
    /\ query' \in QueryWords
    /\ ResetCounters
    /\ work' = NoWork
    /\ rep' = 0
    /\ retScore' = <<>>
    /\ raised' = "none"
    /\ start_pos' = 0 /\ max_length' = InitMaxLength /\ permutation' = <<>>
    /\ err' = "none" /\ response' = <<>> /\ visited' = <<>>
    /\ pc' = "lw_repeat"
    /\ UNCHANGED <<ranker, instVars, pwVars>>

\* lines 209-212: a pass starts on a deep copy of the ranking.
LwPassStart ==
    /\ pc = "lw_repeat"
    /\ rep < num_repeat
    /\ rep' = rep + 1
    /\ start_pos' = FirstStart(Len(ranking), window_size)
    /\ visited' = <<>>
    /\ pc' = "lw_window"
    /\ UNCHANGED <<reused, ranker, query, raised, instVars, ctrVars, listVars,
                   max_length, permutation, err, response, pwVars>>

\* lines 217-222 and 184-185: the window at start_pos is visited; compare is
\* entered and the budget fitter starts.
LwCompare ==
    /\ pc = "lw_window"
    /\ InWindowLoop(start_pos)
    /\ visited' = Append(visited, start_pos)
    /\ total_compare' = total_compare + 1
    /\ work' = [work EXCEPT !.compare = @ + 1]
    /\ max_length' = InitMaxLength
    /\ err' = "none"
    /\ pc' = "lw_fit"
    /\ UNCHANGED <<reused, ranker, query, raised, instVars, total_prompt_tokens,
                   total_completion_tokens, listVars, rep, start_pos,
                   permutation, response, pwVars>>

\* line 217: the window loop ends when start_pos is negative.
LwPassEnd ==
    /\ pc = "lw_window"
    /\ ~InWindowLoop(start_pos)
    /\ pc' = "lw_repeat"
    /\ UNCHANGED <<reused, ranker, query, raised, instVars, ctrVars, listVars,
                   lwVars, pwVars>>

\* create_permutation_instruction_chat, lines 96-97: the request fits.
FitBreak ==
    /\ pc = "lw_fit"
    /\ Fits(query, WindowDocs, max_length, llm)
    /\ pc' = "lw_call"
    /\ UNCHANGED <<reused, ranker, query, raised, instVars, ctrVars, listVars,
                   lwVars, pwVars>>

\* lines 98-99: the request does not fit; one word less per document.
FitShrink ==
    /\ pc = "lw_fit"
    /\ ~Fits(query, WindowDocs, max_length, llm)
    /\ InitMaxLength - max_length < MaxShrink
    /\ max_length' = max_length - 1
    /\ UNCHANGED <<pc, reused, ranker, query, raised, instVars, ctrVars,
                   listVars, rep, start_pos, permutation, err, response,
                   visited, pwVars>>

\* The 1-based identifiers of the passages docs of a request, the passage
\* the hidden order prefers first.
SortedIds(docs) ==
    LET pref == SelectSeq(hidden, LAMBDA d : \E p \in 1..Len(docs) : docs[p] = d)
    IN  [r \in 1..Len(pref) |-> CHOOSE p \in 1..Len(docs) : docs[p] = pref[r]]

\* The texts the oracle may answer a request over docs with: an oracle that
\* judges by its hidden order names the passages in that order.
AnswerTexts(docs) ==
    IF transitive THEN {FormatIds(SortedIds(docs))}
    ELSE OracleTexts(Len(docs))

\* compare, lines 188-197: the oracle answers with a text.
OracleAnswer ==
    /\ pc = "lw_call"
    /\ \E text \in AnswerTexts(WindowDocs) :
          /\ permutation' = text
          /\ total_completion_tokens' =
                total_completion_tokens + Usage(WindowDocs).completion
    /\ total_prompt_tokens' = total_prompt_tokens + Usage(WindowDocs).prompt
    /\ work' = [work EXCEPT !.prompt = @ + Usage(WindowDocs).prompt,
                            !.completion = @ + Usage(WindowDocs).completion]
    /\ pc' = "lw_receive"
    /\ UNCHANGED <<reused, ranker, query, raised, instVars, total_compare,
                   listVars, rep, start_pos, max_length, err, response,
                   visited, pwVars>>

\* Mutant of OracleTransientFailure: the exception is not caught and ends the
\* call.
OracleTransientFailureRaises ==
    /\ pc = "lw_call"
    /\ err' = "transient"
    /\ pc' = "raised"
    /\ raised' = "Exception"
    /\ UNCHANGED <<reused, ranker, query, instVars, ctrVars, listVars, rep,
                   start_pos, max_length, permutation, response, visited,
                   pwVars>>

\* compare, lines 198-200: a failure that is not a context-length failure is
\* printed and the request is issued again.
OracleTransientFailure ==
    /\ pc = "lw_call"
    /\ err' = "transient"
    /\ UNCHANGED <<pc, reused, ranker, query, raised, instVars, ctrVars,
                   listVars, rep, start_pos, max_length, permutation, response,
                   visited, pwVars>>

\* compare, lines 200-202: a context-length failure returns the sentinel.
OracleContextTooLong ==
    /\ pc = "lw_call"
    /\ err' = "context"
    /\ permutation' = Sentinel
    /\ pc' = "lw_receive"
    /\ UNCHANGED <<reused, ranker, query, raised, instVars, ctrVars, listVars,
                   rep, start_pos, max_length, response, visited, pwVars>>

\* lines 225-229: the response is applied to the window and the window moves;
\* a ValueError of receive_permutation ends the call.  receive_permutation
\* writes into the list it is given.
LwReceive ==
    /\ pc = "lw_receive"
    /\ LET out == ReceivePermutation(ranking, permutation, start_pos,
                                     start_pos + window_size)
       IN  IF out.raised
           THEN /\ pc' = "raised"
                /\ raised' = "ValueError"
                /\ UNCHANGED <<ranking, response, start_pos>>
           ELSE /\ pc' = "lw_window"
                /\ ranking' = out.ranking
                /\ response' = out.response
                /\ start_pos' = NextStart(start_pos, step_size)
                /\ UNCHANGED raised
    /\ caller' = IF Aliased THEN ranking' ELSE caller
    /\ UNCHANGED <<reused, ranker, query, instVars, ctrVars, callerScore,
                   retScore, rep, max_length, permutation, err, visited, pwVars>>

\* lines 233-235: score = -i for every document of the ranking, which is the
\* caller's own list when no pass (and so no deep copy) was made.
LwScore ==
    /\ pc = "lw_repeat"
    /\ rep >= num_repeat
    /\ retScore' = [p \in 1..Len(ranking) |-> -(p - 1)]
    /\ callerScore' = IF Aliased THEN [p \in 1..Len(ranking) |-> -(p - 1)]
                      ELSE callerScore
    /\ pc' = "returned"
    /\ UNCHANGED <<reused, ranker, query, raised, instVars, ctrVars, caller,
                   ranking, lwVars, pwVars>>

NextListwise ==
    \/ LwRerank \/ LwPassStart \/ LwCompare \/ LwPassEnd
    \/ FitBreak \/ FitShrink
    \/ OracleAnswer \/ OracleTransientFailure \/ OracleContextTooLong
    \/ LwReceive \/ LwScore

PwLocalsIdle ==
    /\ original_ranking = <<>> /\ arr = <<>> /\ loop_i = 0 /\ loop_j = 0
    /\ outputs = <<>> /\ scoreKeys = <<>> /\ scoreVal = <<>> /\ results = <<>>

PwIdle == PwLocalsIdle /\ hidden = <<>> /\ transitive = FALSE

LwIdle ==
    /\ rep = 0 /\ start_pos = 0 /\ max_length = InitMaxLength
    /\ permutation = <<>> /\ err = "none" /\ response = <<>> /\ visited = <<>>

InitListwise ==
    /\ ranker = "listwise"
    /\ pc = "idle" /\ reused = FALSE /\ query = 0 /\ raised = "none"
    /\ llm \in Models
    /\ window_size \in 1..MaxWindow
    /\ step_size \in 1..MaxStep
    /\ num_repeat \in 0..MaxRepeat
    /\ method = "none" /\ k = 0
    /\ total_compare = 0 /\ total_prompt_tokens = 0
    /\ total_completion_tokens = 0 /\ work = NoWork
    /\ caller = <<>> /\ callerScore = <<>> /\ ranking = <<>> /\ retScore = <<>>
    /\ LwIdle
    /\ PwIdle

SpecListwise == InitListwise /\ [][NextListwise]_vars

\* The listwise reranker with an oracle that always answers, and always by
\* one strict hidden order of the documents: no request ends in a
\* context-too-long failure.
NextListwiseSorted ==
    \/ LwRerank \/ LwPassStart \/ LwCompare \/ LwPassEnd
    \/ FitBreak \/ FitShrink
    \/ OracleAnswer \/ OracleTransientFailure
    \/ LwReceive \/ LwScore

InitListwiseSorted ==
    /\ ranker = "listwise"
    /\ pc = "idle" /\ reused = FALSE /\ query = 0 /\ raised = "none"
    /\ llm \in Models
    /\ window_size \in 1..MaxWindow
    /\ step_size \in 1..MaxStep
    /\ num_repeat \in 0..MaxRepeat
    /\ method = "none" /\ k = 0
    /\ total_compare = 0 /\ total_prompt_tokens = 0
    /\ total_completion_tokens = 0 /\ work = NoWork
    /\ caller = <<>> /\ callerScore = <<>> /\ ranking = <<>> /\ retScore = <<>>
    /\ LwIdle
    /\ PwLocalsIdle
    /\ transitive = TRUE
    /\ hidden \in Orders(MaxDocs)

SpecListwiseSorted == InitListwiseSorted /\ [][NextListwiseSorted]_vars

\* One call of compare (lines 183-202), made by rerank for the first window
\* of its first pass over n >= window_size documents, with an oracle that
\* does not fail forever: a request that keeps being issued (the loop of line
\* 186) is eventually answered.
NextCompare ==
    \/ LwCompare
    \/ FitBreak \/ FitShrink
    \/ OracleAnswer \/ OracleTransientFailure \/ OracleContextTooLong

InitCompare ==
    /\ ranker = "listwise"
    /\ pc = "lw_window" /\ reused = FALSE /\ raised = "none"
    /\ query \in QueryWords
    /\ llm \in Models
    /\ window_size \in 1..MaxWindow
    /\ step_size \in 1..MaxStep
    /\ num_repeat \in 1..MaxRepeat
    /\ method = "none" /\ k = 0
    /\ total_compare = 0 /\ total_prompt_tokens = 0
    /\ total_completion_tokens = 0 /\ work = NoWork
    /\ \E n \in window_size..MaxDocs :
          /\ caller = Iota(n)
          /\ callerScore = [p \in 1..n |-> RetrievalScore(p)]
          /\ ranking = Iota(n)
          /\ start_pos = FirstStart(n, window_size)
    /\ retScore = <<>>
    /\ rep = 1 /\ max_length = InitMaxLength
    /\ permutation = <<>> /\ err = "none" /\ response = <<>> /\ visited = <<>>
    /\ PwIdle

SpecCompareFair ==
    InitCompare /\ [][NextCompare]_vars /\ WF_vars(OracleAnswer)

\* ------------------------------------------------------- repair harness
MaxIds == 3         \* most identifiers of a well-formed response text

\* All raw response texts of at most MaxTextLen characters.
Texts == UNION {[1..m -> Chars] : m \in 0..MaxTextLen}

\* The well-formed response texts "[a] > [b] > ..." of at most MaxIds
\* identifiers from 0..4, repeated or not.
ListTexts == {FormatIds(ids) : ids \in UNION {[1..m -> 0..4] : m \in 0..MaxIds}}

\* One call receive_permutation(ranking, permutation, start_pos,
\* start_pos + window_size) on a list of n documents.
RepairCall ==
    /\ ranker = "repair"
    /\ pc = "rp_call"
    /\ LET out == ReceivePermutation(ranking, permutation, start_pos,
                                     start_pos + window_size)
       IN  /\ ranking' = out.ranking
           /\ response' = out.response
           /\ pc' = IF out.raised THEN "raised" ELSE "returned"
           /\ raised' = IF out.raised THEN "ValueError" ELSE "none"
    /\ UNCHANGED <<reused, ranker, query, instVars, ctrVars, caller,
                   callerScore, retScore, rep, start_pos, max_length,
                   permutation, err, visited, pwVars>>

NextRepair == RepairCall

InitRepair ==
    /\ ranker = "repair"
    /\ pc = "rp_call" /\ reused = FALSE /\ query = 0 /\ raised = "none"
    /\ llm = "none" /\ step_size = 0 /\ num_repeat = 0
    /\ method = "none" /\ k = 0
    /\ window_size \in 0..MaxWindow
    /\ \E n \in 0..MaxDocs :
          /\ caller = Iota(n)
          /\ ranking = Iota(n)
          /\ start_pos \in 0..n
    /\ permutation \in Texts \cup ListTexts
    /\ callerScore = <<>> /\ retScore = <<>>
    /\ total_compare = 0 /\ total_prompt_tokens = 0
    /\ total_completion_tokens = 0 /\ work = NoWork
    /\ rep = 0 /\ max_length = InitMaxLength /\ err = "none"
    /\ response = <<>> /\ visited = <<>>
    /\ PwIdle

SpecRepair == InitRepair /\ [][NextRepair]_vars

\* ------------------------------------------------------- pairwise reranker
MaxPairDocs == 4    \* longest candidate list of the pairwise reranker
MaxNoisyPairs == 3  \* pairs of an all-pairs run answered with arbitrary labels
MaxK == 4           \* largest top size k

Methods == {"allpair", "heapsort", "bubblesort"}

\* Decoded oracle outputs: the two expected labels and any other text.
Labels == {"Passage A", "Passage B", "Passage C"}

\* Tokens of the pairwise prompt without query and passages, of the decoder
\* prefix "<pad> Passage", and of the generated continuation.
PairPromptWords == 25
DecoderPrefixTokens == 2
MaxNewTokens == 2

PairPromptTokens(q, d1, d2) == PairPromptWords + q + WordsOf(d1) + WordsOf(d2)

\* Position of docid in the oracle's hidden preference order (1 = best).
HiddenRank(docid) == CHOOSE p \in 1..Len(hidden) : hidden[p] = docid

Prefers(d1, d2) == HiddenRank(d1) < HiddenRank(d2)

\* The decoded outputs for the prompts (A=d1, B=d2) and (A=d2, B=d1).  A
\* transitive oracle names the passage its hidden order prefers; otherwise any
\* two labels may come back.
Consistent(d1, d2) ==
    IF Prefers(d1, d2) THEN <<"Passage A", "Passage B">>
                       ELSE <<"Passage B", "Passage A">>

OracleOutputs(d1, d2) ==
    IF transitive /\ d1 # d2 THEN {Consistent(d1, d2)} ELSE Labels \X Labels

\* list(combinations(ranking, 2))
RECURSIVE Combinations(_)
Combinations(list) ==
    IF Len(list) <= 1 THEN <<>>
    ELSE [b \in 1..(Len(list) - 1) |-> <<list[1], list[b + 1]>>]
         \o Combinations(Tail(list))

NoScores == [d \in 1..MaxPairDocs |-> 0]

\* Mutant of Credit: the score is assigned, not accumulated.
CreditOverwrite(sc, docid, amount2) ==
    [keys |-> IF InSeq(docid, sc.keys) THEN sc.keys ELSE Append(sc.keys, docid),
     val |-> [sc.val EXCEPT ![docid] = amount2]]

\* scores[docid] += amount on the defaultdict (amount2 is twice the amount).
Credit(sc, docid, amount2) ==
    [keys |-> IF InSeq(docid, sc.keys) THEN sc.keys ELSE Append(sc.keys, docid),
     val |-> [sc.val EXCEPT ![docid] = @ + amount2]]

\* lines 234-244: the scoring loop from pair number i (1-based) on.
RECURSIVE ScoreFrom(_, _, _, _)
ScoreFrom(i, doc_pairs, outs, sc) ==
    IF i > Len(doc_pairs) THEN sc
    ELSE LET doc1 == doc_pairs[i][1]
             doc2 == doc_pairs[i][2]
             output1 == outs[2 * i - 1]
             output2 == outs[2 * i]
         IN  ScoreFrom(i + 1, doc_pairs, outs,
                IF output1 = "Passage A" /\ output2 = "Passage B"
                THEN Credit(sc, doc1, 2)
                ELSE IF output1 = "Passage B" /\ output2 = "Passage A"
                THEN Credit(sc, doc2, 2)
                ELSE Credit(Credit(sc, doc1, 1), doc2, 1))

\* Stable insertion of docid behind every element whose score is not lower.
RECURSIVE InsertDesc(_, _, _)
InsertDesc(sorted, docid, val) ==
    IF sorted = <<>> THEN <<docid>>
    ELSE IF val[Head(sorted)] >= val[docid]
         THEN <<Head(sorted)>> \o InsertDesc(Tail(sorted), docid, val)
         ELSE <<docid>> \o sorted

\* Mutant of SortedByScore: reverse=True is missing (ascending stable sort).
RECURSIVE InsertAsc(_, _, _)
InsertAsc(sorted, docid, val) ==
    IF sorted = <<>> THEN <<docid>>
    ELSE IF val[Head(sorted)] <= val[docid]
         THEN <<Head(sorted)>> \o InsertAsc(Tail(sorted), docid, val)
         ELSE <<docid>> \o sorted

RECURSIVE SortedAscending(_, _)
SortedAscending(keys, val) ==
    IF keys = <<>> THEN <<>>
    ELSE InsertAsc(SortedAscending(SubSeq(keys, 1, Len(keys) - 1), val),
                   keys[Len(keys)], val)

\* sorted(..., key=lambda x: x.score, reverse=True) over scores.items(): a
\* stable sort by descending score.
RECURSIVE SortedByScore(_, _)
SortedByScore(keys, val) ==
    IF keys = <<>> THEN <<>>
    ELSE InsertDesc(SortedByScore(SubSeq(keys, 1, Len(keys) - 1), val),
                    keys[Len(keys)], val)

\* One compare call (lines 102-155) on d1, d2 with a query of q words adds to
\* the counters.
Compared(q, d1, d2) ==
    /\ total_compare' = total_compare + 1
    /\ total_prompt_tokens' = total_prompt_tokens + 2 * PairPromptTokens(q, d1, d2)
    /\ total_completion_tokens' =
          total_completion_tokens + 2 * (DecoderPrefixTokens + MaxNewTokens)
    /\ work' = [compare |-> work.compare + 1,
                prompt |-> work.prompt + 2 * PairPromptTokens(q, d1, d2),
                completion |-> work.completion
                                + 2 * (DecoderPrefixTokens + MaxNewTokens)]

\* rerank, lines 185-190: entry of a call with a list of n documents.
PwRerank ==
    /\ ranker = "pairwise"
    /\ pc \in CallEnded
    /\ reused' = (reused \/ total_compare > 0)
    /\ \E n \in 0..MaxPairDocs :
          /\ caller' = Iota(n)
          /\ callerScore' = [p \in 1..n |-> RetrievalScore(p)]
          /\ ranking' = Iota(n)
          /\ original_ranking' = Iota(n)
    /\ query' \in {q \in QueryWords : q < InitMaxLength}
    /\ ResetCounters
    /\ work' = NoWork
    /\ arr' = <<>> /\ loop_i' = 0 /\ loop_j' = 0 /\ outputs' = <<>>
    /\ scoreKeys' = <<>> /\ scoreVal' = NoScores /\ results' = <<>>
    /\ retScore' = <<>>
    /\ raised' = "none"
    /\ pc' = CASE method = "allpair" -> "ap_generate"
               [] method = "heapsort" -> "heap_sort"
               [] OTHER -> "bs_start"
    /\ UNCHANGED <<ranker, instVars, lwVars, hidden, transitive>>

\* lines 216-229: one batch, the two prompts of the next pair (batch_size =
\* 2, no shuffling), is generated and its decoded outputs are kept.  An oracle
\* that is not transitive answers the first MaxNoisyPairs pairs of a call
\* with any labels and the later ones by its hidden order.
ApBatch ==
    /\ pc = "ap_generate"
    /\ Len(outputs) < 2 * Len(Combinations(ranking))
    /\ LET i == (Len(outputs) \div 2) + 1
           pair == Combinations(ranking)[i]
       IN  /\ \E out \in (IF i <= MaxNoisyPairs
                          THEN OracleOutputs(pair[1], pair[2])
                          ELSE {Consistent(pair[1], pair[2])}) :
                 outputs' = outputs \o out
           /\ Compared(query, pair[1], pair[2])
    /\ UNCHANGED <<pc, reused, ranker, query, raised, instVars, listVars,
                   lwVars, original_ranking, arr, loop_i, loop_j, scoreKeys,
                   scoreVal, results, hidden, transitive>>

\* lines 231-247: the outputs are scored pair by pair and the credited
\* documents are sorted by descending score.
ApScore ==
    /\ pc = "ap_generate"
    /\ Len(outputs) = 2 * Len(Combinations(ranking))
    /\ LET sc == ScoreFrom(1, Combinations(ranking), outputs,
                           [keys |-> <<>>, val |-> NoScores])
       IN  /\ scoreKeys' = sc.keys
           /\ scoreVal' = sc.val
           /\ ranking' = SortedByScore(sc.keys, sc.val)
    /\ pc' = "pw_merge"
    /\ UNCHANGED <<reused, ranker, query, raised, instVars, ctrVars, caller,
                   callerScore, retScore, lwVars, original_ranking, arr,
                   loop_i, loop_j, outputs, results, hidden, transitive>>

\* heapSort, lines 160-163, on a non-empty list: the first push compares
\* arr[0] with the anchor arr[0]; the unary minus applied to the returned
\* label (a str) raises TypeError.
HeapPush ==
    /\ pc = "heap_sort"
    /\ ranking # <<>>
    /\ arr' = ranking
    /\ Compared(0, ranking[1], ranking[1])
    /\ pc' = "raised"
    /\ raised' = "TypeError"
    /\ UNCHANGED <<reused, ranker, query, instVars, listVars, lwVars,
                   original_ranking, loop_i, loop_j, outputs, scoreKeys,
                   scoreVal, results, hidden, transitive>>

\* heapSort (160-167) and its call (253-254) on an empty list: nothing is
\* pushed; popping k >= 1 times from the empty heap raises IndexError.
HeapEmpty ==
    /\ pc = "heap_sort"
    /\ ranking = <<>>
    /\ arr' = <<>>
    /\ IF k >= 1
       THEN pc' = "raised" /\ raised' = "IndexError"
       ELSE pc' = "pw_merge" /\ UNCHANGED raised
    /\ UNCHANGED <<reused, ranker, query, instVars, ctrVars, listVars, lwVars,
                   original_ranking, loop_i, loop_j, outputs, scoreKeys,
                   scoreVal, results, hidden, transitive>>

\* Mutant of BsStart: the write-back of lines 182-183 is made before the
\* loops.
BsStartWritesBack ==
    /\ pc = "bs_start"
    /\ arr' = Slice(ranking, 0, k)
    /\ loop_i' = 0
    /\ loop_j' = 0
    /\ callerScore' = [p \in 1..Len(Slice(ranking, 0, k)) |-> -(p - 1)]
                      \o Slice(callerScore, k, Len(callerScore))
    /\ pc' = "bs_loop"
    /\ UNCHANGED <<reused, ranker, query, raised, instVars, ctrVars, caller,
                   ranking, retScore, lwVars, original_ranking, outputs,
                   scoreKeys, scoreVal, results, hidden, transitive>>

\* bubblesort, lines 171-172: the working list holds the first k documents.
BsStart ==
    /\ pc = "bs_start"
    /\ arr' = Slice(ranking, 0, k)
    /\ loop_i' = 0
    /\ loop_j' = 0
    /\ pc' = "bs_loop"
    /\ UNCHANGED <<reused, ranker, query, raised, instVars, ctrVars, listVars,
                   lwVars, original_ranking, outputs, scoreKeys, scoreVal,
                   results, hidden, transitive>>

\* Mutant of Swap: two successive assignments, the first value is lost.
SwapLost(list, p) == [list EXCEPT ![p] = list[p + 1]]

\* line 179: arr[j], arr[j + 1] = arr[j + 1], arr[j] (p is j + 1).
Swap(list, p) ==
    [list EXCEPT ![p] = list[p + 1], ![p + 1] = list[p]]

\* lines 175-179: one pass of the inner loop body at (i, j).  Reading arr[j]
\* or arr[j + 1] past the end raises IndexError before compare is called.
BsCompare ==
    /\ pc = "bs_loop"
    /\ loop_i < k
    /\ loop_j < k - loop_i - 1
    /\ IF loop_j + 1 >= Len(arr)
       THEN /\ pc' = "raised"
            /\ raised' = "IndexError"
            /\ UNCHANGED <<arr, loop_j, ctrVars>>
       ELSE /\ \E out \in OracleOutputs(arr[loop_j + 1], arr[loop_j + 2]) :
                  arr' = IF out[1] = "Passage B" THEN Swap(arr, loop_j + 1)
                         ELSE arr
            /\ Compared(query, arr[loop_j + 1], arr[loop_j + 2])
            /\ loop_j' = loop_j + 1
            /\ UNCHANGED <<pc, raised>>
    /\ UNCHANGED <<reused, ranker, query, instVars, listVars, lwVars,
                   original_ranking, loop_i, outputs, scoreKeys, scoreVal,
                   results, hidden, transitive>>

\* lines 174-175: the inner loop is over; the next i.
BsNextI ==
    /\ pc = "bs_loop"
    /\ loop_i < k
    /\ loop_j >= k - loop_i - 1
    /\ loop_i' = loop_i + 1
    /\ loop_j' = 0
    /\ UNCHANGED <<pc, reused, ranker, query, raised, instVars, ctrVars,
                   listVars, lwVars, original_ranking, arr, outputs, scoreKeys,
                   scoreVal, results, hidden, transitive>>

\* lines 182-183: ranking[:k] of the caller's list is overwritten with the
\* sorted documents, scored -i.
BsWriteBack ==
    /\ pc = "bs_loop"
    /\ loop_i >= k
    /\ caller' = arr \o Slice(caller, k, Len(caller))
    /\ ranking' = arr \o Slice(ranking, k, Len(ranking))
    /\ callerScore' = [p \in 1..Len(arr) |-> -(p - 1)]
                      \o Slice(callerScore, k, Len(callerScore))
    /\ pc' = "pw_merge"
    /\ UNCHANGED <<reused, ranker, query, raised, instVars, ctrVars, retScore,
                   lwVars, pwVars>>

\* lines 262-275: the first k documents of the strategy's ranking, then every
\* original document not among them, in original order; score = -rank.
PwMerge ==
    /\ pc = "pw_merge"
    /\ LET top == Slice(ranking, 0, k)
           rest == SelectSeq(original_ranking, LAMBDA d : ~InSeq(d, top))
       IN  /\ results' = top \o rest
           /\ retScore' = [p \in 1..Len(top \o rest) |-> -p]
    /\ pc' = "returned"
    /\ UNCHANGED <<reused, ranker, query, raised, instVars, ctrVars, caller,
                   callerScore, ranking, lwVars, original_ranking, arr, loop_i,
                   loop_j, outputs, scoreKeys, scoreVal, hidden, transitive>>

NextPairwise ==
    \/ PwRerank
    \/ ApBatch \/ ApScore
    \/ HeapPush \/ HeapEmpty
    \/ BsStart \/ BsCompare \/ BsNextI \/ BsWriteBack
    \/ PwMerge

InitPairwise ==
    /\ ranker = "pairwise"
    /\ pc = "idle" /\ reused = FALSE /\ query = 0 /\ raised = "none"
    /\ llm = "none" /\ window_size = 0 /\ step_size = 0 /\ num_repeat = 0
    /\ method \in Methods
    /\ k \in 0..MaxK
    /\ transitive \in BOOLEAN
    /\ hidden \in (IF transitive THEN Orders(MaxPairDocs)
                                 ELSE {Iota(MaxPairDocs)})
    /\ total_compare = 0 /\ total_prompt_tokens = 0
    /\ total_completion_tokens = 0 /\ work = NoWork
    /\ caller = <<>> /\ callerScore = <<>> /\ ranking = <<>> /\ retScore = <<>>
    /\ LwIdle
    /\ PwLocalsIdle

SpecPairwise == InitPairwise /\ [][NextPairwise]_vars

\* =================================================================== claims
\* s is a permutation of [0, w): no duplicates, no omissions, nothing out of
\* range.
IsPermutation(s, w) ==
    /\ Len(s) = w
    /\ \A x \in 0..(w - 1) : \E p \in 1..w : s[p] = x

\* Size of the window receive_permutation cut from the list it was given.
CutLen == Len(Slice(caller, start_pos, start_pos + window_size))

\* C1: permutation repair is total: for every raw response text and every
\* window, receive_permutation never raises, and the order it applies to the
\* window is a permutation of [0, W).
C1_RepairTotal ==
    (ranker = "repair" /\ pc # "rp_call") =>
        /\ pc = "returned"
        /\ raised = "none"
        /\ IsPermutation(response, CutLen)

\* Repair is total on every text whose digits are all decimal digits.
RepairTotalOnDecimalTexts ==
    (ranker = "repair" /\ pc # "rp_call"
        /\ \A p \in 1..Len(permutation) : permutation[p] \notin NonDecimalDigits) =>
        /\ pc = "returned"
        /\ IsPermutation(response, CutLen)

\* A pass of the listwise rerank has run to its end.
PassDone ==
    ranker = "listwise" /\ pc \in {"lw_repeat", "returned"} /\ rep >= 1

\* Number of windows the claim gives for n documents, window w, stride step.
CoverageCount(n, w, step) == IF n >= w THEN ((n - w) \div step) + 1 ELSE 0

\* C3: window coverage: in each pass over n documents the windows visited
\* start at n-W, n-W-S, n-W-2S, ... in that order, never at a negative start;
\* a pass that has run to its end has visited exactly floor((n-W)/S)+1 windows
\* when n >= W and none when n < W; n=10, W=4, S=2 visits 6,4,2,0.
C3_WindowCoverage ==
    /\ ranker = "listwise" =>
          /\ \A p \in 1..Len(visited) :
                /\ visited[p] = Len(ranking) - window_size - (p - 1) * step_size
                /\ visited[p] >= 0
          /\ Len(visited) <= CoverageCount(Len(ranking), window_size, step_size)
          /\ PassDone =>
                Len(visited) = CoverageCount(Len(ranking), window_size, step_size)
    /\ StartsFrom(FirstStart(10, 4), 2) = <<6, 4, 2, 0>>

C3_Witness ==
    /\ PassDone
    /\ Len(ranking) = 3 /\ window_size = 2 /\ step_size = 1
    /\ visited = <<1, 0>>

\* C7: the budget fitter's truncation length never goes below zero (at length
\* zero with the budget still exceeded the fitter ends with a fatal outcome
\* instead of decrementing further).
C7_FitterFloor == max_length >= 0

\* The identity order of a window of w documents.
IdentityOrder(w) == [p \in 1..w |-> p - 1]

\* C8: a context-too-long failure of the oracle call makes compare return the
\* sentinel (no raise, no retry); repairing the sentinel gives the identity
\* permutation, so the window keeps its order and the pass goes on to the
\* next window.
C8_ContextTooLong ==
    /\ [][(pc = "lw_call" /\ err' = "context") =>
            (pc' = "lw_receive" /\ permutation' = Sentinel
                /\ raised' = "none")]_vars
    /\ [][(pc = "lw_receive" /\ err = "context") =>
            (/\ pc' = "lw_window"
             /\ raised' = "none"
             /\ response' = IdentityOrder(window_size)
             /\ ranking' = ranking
             /\ start_pos' = start_pos - step_size
             /\ visited' = visited)]_vars

C8_Witness ==
    /\ ranker = "listwise"
    /\ pc = "lw_fit"
    /\ permutation = Sentinel
    /\ response = <<0, 1>>
    /\ visited = <<1, 0>>
    /\ ranking = <<1, 2, 3>>

\* ----------------------------------------------------------- whole system
Init == InitListwise \/ InitPairwise

Next == NextListwise \/ NextPairwise

Spec == Init /\ [][Next]_vars

\* ------------------------------------------------------- pairwise claims
\* A pairwise rerank call has ended, by returning or by raising.
PwEnded == ranker = "pairwise" /\ pc \in {"returned", "raised"}

\* The returned list keeps the count and the docids of the input, and the
\* documents behind the top k are in their original relative order.
MergeInvariants ==
    /\ Len(results) = Len(original_ranking)
    /\ Range(results) = Range(original_ranking)
    /\ Slice(results, k, Len(results)) =
          SelectSeq(original_ranking,
                    LAMBDA d : ~InSeq(d, Slice(results, 0, k)))

\* C2: merge invariants: for every pairwise strategy, every candidate list
\* and every k, rerank returns a list of the input's length with the input's
\* docids, the documents outside the top k in original relative order.
C2_MergeInvariants ==
    PwEnded => (pc = "returned" /\ MergeInvariants)

\* The merge invariants hold of every list rerank does return.
MergeInvariantsWhenReturned ==
    (ranker = "pairwise" /\ pc = "returned") => MergeInvariants

RECURSIVE SumScores(_, _)
SumScores(keys, val) ==
    IF keys = <<>> THEN 0 ELSE val[Head(keys)] + SumScores(Tail(keys), val)

\* C4: score conservation in the all-pairs tournament: whatever labels the
\* oracle returns, the accumulated scores sum to C(n,2) (doubled scores:
\* n(n-1)).
C4_ScoreConservation ==
    (ranker = "pairwise" /\ method = "allpair" /\ pc \in {"pw_merge", "returned"})
        => SumScores(scoreKeys, scoreVal)
             = Len(original_ranking) * (Len(original_ranking) - 1)

\* Three documents: 1 beats 2, 1 and 3 get conflicting judgments, 2 beats 3.
C4_Witness ==
    /\ ranker = "pairwise" /\ method = "allpair" /\ pc = "returned"
    /\ Len(original_ranking) = 3
    /\ outputs = <<"Passage A", "Passage B", "Passage A", "Passage C",
                   "Passage A", "Passage B">>
    /\ scoreVal[1] = 3 /\ scoreVal[2] = 2 /\ scoreVal[3] = 1

\* C5: bubble-sort top-k: with a transitive oracle and k <= n, rerank returns
\* the first k input documents in descending hidden preference, then the
\* remaining documents in their original order.
C5_BubbleTopK ==
    (PwEnded /\ method = "bubblesort" /\ transitive
        /\ k <= Len(original_ranking)) =>
        /\ pc = "returned"
        /\ Len(results) = Len(original_ranking)
        /\ Range(Slice(results, 0, k)) = Range(Slice(original_ranking, 0, k))
        /\ \A p, q \in 1..k : p < q => Prefers(results[p], results[q])
        /\ Slice(results, k, Len(results))
             = Slice(original_ranking, k, Len(original_ranking))

\* k=3, input [a,b,c,d] = [1,2,3,4], hidden order c>a>b>d: output [c,a,b,d].
C5_Witness ==
    /\ ranker = "pairwise" /\ method = "bubblesort" /\ pc = "returned"
    /\ transitive /\ hidden = <<3, 1, 2, 4>>
    /\ k = 3 /\ original_ranking = <<1, 2, 3, 4>>
    /\ results = <<3, 1, 2, 4>>

\* C6: heap-based top-k: with a transitive oracle the heap strategy returns,
\* first in the result, the k most-preferred candidates, most preferred first.
C6_HeapTopK ==
    (PwEnded /\ method = "heapsort" /\ transitive
        /\ k <= Len(original_ranking)) =>
        /\ pc = "returned"
        /\ \A p, q \in 1..k : p < q => Prefers(results[p], results[q])
        /\ \A p \in 1..k : \A q \in (k + 1)..Len(results) :
              Prefers(results[p], results[q])

\* C9: the budget counters are zeroed at the entry of every rerank call: at
\* any point they hold exactly the oracle work done since the running (or
\* last) call was entered, whatever earlier calls did.
C9_CountersPerCall ==
    /\ total_compare = work.compare
    /\ total_prompt_tokens = work.prompt
    /\ total_completion_tokens = work.completion

\* A later call on an instance that had done oracle work before has returned
\* after one comparison.
C9_Witness ==
    /\ reused
    /\ pc = "returned"
    /\ total_compare = 1
    /\ total_prompt_tokens > 0
    /\ total_completion_tokens > 0

\* Accumulated score of a document, 0 when it was never credited (doubled).
ScoreOf(docid) == IF InSeq(docid, scoreKeys) THEN scoreVal[docid] ELSE 0

\* C10: all-pairs final order: the first min(k, n) returned documents are in
\* non-increasing order of accumulated score, and no document behind them
\* has a strictly higher score than any of them.
C10_AllPairOrder ==
    (ranker = "pairwise" /\ method = "allpair" /\ pc = "returned") =>
        LET n == Len(original_ranking)
            m == Min(k, n)
        IN  /\ Len(results) = n
            /\ \A p \in 1..(m - 1) :
                  ScoreOf(results[p]) >= ScoreOf(results[p + 1])
            /\ \A p \in 1..m : \A q \in (m + 1)..n :
                  ScoreOf(results[p]) >= ScoreOf(results[q])

\* Three documents, k = 2: document 3 wins both its pairs, 2 beats 1.
C10_Witness ==
    /\ ranker = "pairwise" /\ method = "allpair" /\ pc = "returned"
    /\ k = 2
    /\ original_ranking = <<1, 2, 3>>
    /\ scoreVal[3] = 4 /\ scoreVal[2] = 2 /\ scoreVal[1] = 0
    /\ results = <<3, 2, 1>>

\* ------------------------------------------------------- listwise claims
\* rerank, lines 217-229, as a function: the ranking one pass leaves when it
\* goes on from window start pos and the oracle answers every window with
\* the same text (step >= 1).
RECURSIVE LwPass(_, _, _, _, _)
LwPass(list, pos, w, step, text) ==
    IF InWindowLoop(pos)
    THEN LwPass(ReceivePermutation(list, text, pos, pos + w).ranking,
                NextStart(pos, step), w, step, text)
    ELSE list

\* The step of rerank that applies a repaired response to the window.
WindowApplied ==
    ranker = "listwise" /\ pc = "lw_receive" /\ pc' = "lw_window"

\* C11: applying the resolved permutation p to the window [start, start+W)
\* sets ranking[start+j] to the document that was at start+p[j] before the
\* step, for every j in [0, W), and changes no position outside the window;
\* so at every point of a rerank the ranking holds exactly the input
\* documents, each once; and n = W = S = 4, R = 1 with the oracle answering
\* "[4] > [3] > [2] > [1]" gives [d4, d3, d2, d1].
C11_PermutationApplied ==
    /\ [][WindowApplied =>
            (/\ IsPermutation(response', window_size)
             /\ Len(ranking') = Len(ranking)
             /\ \A p \in 1..Len(ranking) :
                   ranking'[p] =
                      IF p - 1 >= start_pos /\ p - 1 < start_pos + window_size
                      THEN ranking[start_pos + response'[p - start_pos] + 1]
                      ELSE ranking[p])]_vars
    /\ [](ranker = "listwise" =>
            (/\ Len(ranking) = Len(caller)
             /\ Range(ranking) = Range(caller)
             /\ \A p, q \in 1..Len(ranking) :
                   p # q => ranking[p] # ranking[q]))
    /\ [](LwPass(Iota(4), FirstStart(4, 4), 4, 4, FormatIds(<<4, 3, 2, 1>>))
            = <<4, 3, 2, 1>>)

\* Three documents, W = 2, S = 1, the oracle answered "[2] > [1]" twice:
\* document 3 moved from the tail to the head through both windows.
C11_Witness ==
    /\ ranker = "listwise" /\ pc = "lw_window"
    /\ caller = <<1, 2, 3>> /\ window_size = 2 /\ step_size = 1
    /\ visited = <<1, 0>>
    /\ response = <<1, 0>>
    /\ ranking = <<3, 1, 2>>

\* receive_permutation, line 156: the 0-based identifiers the response names,
\* in the order of the text.
NamedIds(text) ==
    [i \in 1..Len(ResponseTokens(text)) |-> IntOf(ResponseTokens(text)[i]) - 1]

\* Position of the first occurrence of x in ids.
FirstOccurrence(x, ids) ==
    CHOOSE i \in 1..Len(ids) : ids[i] = x /\ \A j \in 1..(i - 1) : ids[j] # x

\* resp is the reference result for the named identifiers ids and a window of
\* w documents: the named in-range identifiers, each once, by first
\* occurrence, then the identifiers of [0, w) not named, ascending.
ReferencePolicy(resp, ids, w) ==
    LET named == {x \in Range(ids) : 0 <= x /\ x < w}
        m == Cardinality(named)
    IN  /\ Len(resp) = w
        /\ \A p \in 1..m : resp[p] \in named
        /\ \A p, q \in 1..m :
              p < q => FirstOccurrence(resp[p], ids) < FirstOccurrence(resp[q], ids)
        /\ \A p \in (m + 1)..w : resp[p] \in (0..(w - 1)) \ named
        /\ \A p, q \in (m + 1)..w : p < q => resp[p] < resp[q]

\* C12: the order receive_permutation resolves is the reference policy
\* result: the in-range 0-based identifiers the response names, by first
\* occurrence, later duplicates dropped, then every index of [0, W) not
\* named, ascending; the response "[1] > [2] > ... > [W]" resolves to the
\* identity.
C12_ReferencePolicy ==
    /\ (ranker = "repair" /\ pc = "returned") =>
          /\ ReferencePolicy(response, NamedIds(permutation), CutLen)
          /\ permutation = FormatIds(Iota(CutLen)) =>
                response = IdentityOrder(CutLen)
    /\ \A w \in 0..MaxWindow :
          ResolvedResponse(FormatIds(Iota(w)), w) = IdentityOrder(w)

\* "[3] > [1] > [3]" on a window of three: the repeated 3 counts where it
\* came first, 2 was not named and is appended.
C12_Witness ==
    /\ ranker = "repair" /\ pc = "returned"
    /\ caller = <<1, 2, 3>> /\ start_pos = 0 /\ window_size = 3
    /\ permutation = FormatIds(<<3, 1, 3>>)
    /\ response = <<2, 0, 1>>
    /\ ranking = <<3, 1, 2>>

\* compare has issued its request and waits in the retry loop of line 186.
InRetryLoop == ranker = "listwise" /\ pc = "lw_call"

\* compare has returned the text the oracle answered.
ReturnedAnswer ==
    pc = "lw_receive" /\ err # "context"
        /\ permutation \in AnswerTexts(WindowDocs)

\* compare has returned the sentinel after a context-too-long failure.
ReturnedSentinel ==
    pc = "lw_receive" /\ err = "context" /\ permutation = Sentinel

\* C13: a transient oracle failure leaves compare in its retry loop with the
\* same request: it neither returns nor raises, and nothing but the caught
\* exception changes; the loop is left only by returning the oracle's answer
\* or, on a context-too-long failure, the sentinel; with an oracle that
\* eventually answers, compare eventually returns.
C13_TransientRetry ==
    /\ [][InRetryLoop =>
            \/ /\ pc' = "lw_call" /\ err' = "transient"
               /\ UNCHANGED <<reused, ranker, query, raised, instVars, ctrVars,
                              listVars, rep, start_pos, max_length, permutation,
                              response, visited, pwVars>>
            \/ /\ ReturnedAnswer' /\ raised' = "none"
            \/ /\ ReturnedSentinel' /\ raised' = "none"]_vars
    /\ (InRetryLoop ~> (ReturnedAnswer \/ ReturnedSentinel))

\* compare returned the oracle's answer after a transient failure.
C13_Witness ==
    /\ ranker = "listwise"
    /\ pc = "lw_receive"
    /\ err = "transient"
    /\ raised = "none"
    /\ permutation = FormatIds(<<2, 1>>)

\* The first m documents of list are its m most preferred ones, the most
\* preferred first.
TopSorted(list, m) ==
    \A p \in 1..m : \A q \in (p + 1)..Len(list) : Prefers(list[p], list[q])

\* C14: with an oracle that always answers the window sorted by a strict
\* hidden total order, n >= W, 1 <= S < W and S dividing n-W, one
\* tail-to-head pass leaves the W-S most preferred documents of the whole
\* list at positions 0..W-S-1, most preferred first, wherever they started.
C14_SinglePassTop ==
    (/\ PassDone /\ rep = 1 /\ transitive
     /\ Len(ranking) >= window_size
     /\ step_size >= 1 /\ step_size < window_size
     /\ (Len(ranking) - window_size) % step_size = 0) =>
        TopSorted(ranking, window_size - step_size)

\* Three documents, W = 2, S = 1, the tail document is the most preferred:
\* it went through both windows to the head.
C14_Witness ==
    /\ PassDone /\ rep = 1 /\ transitive
    /\ hidden = <<3, 1, 2>>
    /\ caller = <<1, 2, 3>> /\ window_size = 2 /\ step_size = 1
    /\ visited = <<1, 0>>
    /\ ranking = <<3, 1, 2>>

\* A bubblesort rerank with k >= 2 larger than the number of candidates has
\* been entered.
BubbleOverrun ==
    /\ ranker = "pairwise" /\ method = "bubblesort" /\ pc # "idle"
    /\ k >= 2 /\ k > Len(original_ranking)

\* C15: a bubblesort rerank with k >= 2 and k > n never returns a ranking:
\* it ends only by the IndexError of the adjacent-pair loop reading past the
\* end of the n-element working list; the write-back comes after the loops,
\* so the caller's list keeps its documents, their order and their scores.
C15_BubbleOverrun ==
    BubbleOverrun =>
        /\ pc \notin {"pw_merge", "returned"}
        /\ results = <<>>
        /\ caller = original_ranking
        /\ callerScore = [p \in 1..Len(caller) |-> RetrievalScore(p)]
        /\ pc = "raised" =>
              (raised = "IndexError" /\ loop_j + 1 >= Len(arr)
                  /\ Len(arr) = Len(original_ranking))

\* k = 4 on three documents: the working list was compared twice and
\* swapped once before position 3 was read; the caller's list is as it was.
C15_Witness ==
    /\ BubbleOverrun
    /\ pc = "raised" /\ raised = "IndexError"
    /\ k = 4 /\ original_ranking = <<1, 2, 3>>
    /\ arr = <<2, 1, 3>>
    /\ loop_i = 0 /\ loop_j = 2
    /\ total_compare = 2
    /\ caller = <<1, 2, 3>>

\* A listwise rerank with at least one repeat has been entered.
CopyingRerank == ranker = "listwise" /\ num_repeat >= 1 /\ pc # "idle"

\* C16: a listwise rerank with R >= 1 works on a deep copy: whatever the
\* oracle answers, the caller's list keeps its order and its documents keep
\* their scores; the returned ranking holds the same documents in the new
\* order, scored score = -index.
C16_CallerUntouched ==
    CopyingRerank =>
        /\ caller = Iota(Len(caller))
        /\ callerScore = [p \in 1..Len(caller) |-> RetrievalScore(p)]
        /\ pc = "returned" =>
              /\ Len(ranking) = Len(caller)
              /\ Range(ranking) = Range(caller)
              /\ retScore = [p \in 1..Len(ranking) |-> -(p - 1)]

\* The returned ranking has another order and the scores 0, -1, -2; the
\* caller's list is as it was passed.
C16_Witness ==
    /\ CopyingRerank /\ pc = "returned"
    /\ ranking = <<3, 1, 2>> /\ retScore = <<0, -1, -2>>
    /\ caller = <<1, 2, 3>>
    /\ callerScore = <<RetrievalScore(1), RetrievalScore(2), RetrievalScore(3)>>

====
